---- MODULE Spec2Model ----
(***************************************************************************)
(* A model of colmap's GpuMat<T> (src/mvs/gpu_mat.h): a reference-counted  *)
(* handle to a pitched device allocation, its (row, col, slice) addressing,*)
(* the fill kernels, the host/device transfers, the per-slice transforms   *)
(* and the "<w>&<h>&<d>&" + raw payload file format.                       *)
(*                                                                         *)
(* Device and host memory are byte arrays (functions 0..n-1 -> 0..255); an *)
(* element of type T is its object representation, a tuple of sizeof(T)    *)
(* bytes (field size of a handle), integers being stored little-endian.    *)
(***************************************************************************)
EXTENDS Integers, Sequences, FiniteSets, TLC

VARIABLES
    mat,       \* the array operated on: a GpuMat<T> handle (see GpuMat below)
    mem,       \* the bytes of mat's device allocation
    out,       \* a second array: transform / Read destination, generator states
    outMem,    \* the bytes of out's device allocation
    host,      \* host buffers of the transfer round trip
    fs,        \* the one file path the serialization operations use
    handles,   \* live GpuMat handle objects: handle id -> allocation id
    ctrl,      \* per allocation: shared_ptr use count and number of cudaFree calls
    last       \* what the last operation did (history, for stating the claims)

vars == <<mat, mem, out, outMem, host, fs, handles, ctrl, last>>

\* ---------------------------------------------------------------- bounds
MaxWidth == 2
MaxHeight == 2
MaxDepth == 2
\* the allocator aligns rows to 1, 2, .. 2^MaxAlignLog bytes
MaxAlignLog == 2
\* most padding bytes per row of a host buffer
MaxPad == 1
\* widths up to kBlockDimX + MaxOver and heights up to kBlockDimY + MaxOver
\* are filled, so that the launch grid has more than one block
MaxOver == 1
\* most consecutive FillWithRandomNumbers calls on one state buffer
MaxCalls == 2
\* handle objects and device allocations of the ownership model
MaxHandles == 3
MaxAllocs == 2

\* element sizes of the instantiations explored
ElemSizes == {1, 2, 3}
\* what freshly allocated (uninitialised) memory may hold: byte a is
\* (g[1] + a * g[2]) % 256
Garbage == {<<0, 0>>, <<170, 0>>, <<7, 13>>}

kBlockDimX == 32
kBlockDimY == 16
\* sizeof(curandState) in this model: a generator state is a 2-byte integer
kStateSize == 2

\* ---------------------------------------------------------------- bytes
RECURSIVE Pow256(_)
Pow256(n) == IF n = 0 THEN 1 ELSE 256 * Pow256(n - 1)

\* byte i of the object representation of value v (little-endian)
ByteOf(v, i) == (v \div Pow256(i)) % 256

\* the object representation of the integer v as an n-byte value
Bytes(v, n) == [i \in 0..(n - 1) |-> ByteOf(v, i)]

RECURSIVE ValueFrom(_, _)
\* the integer whose object representation is bytes i.. of v
ValueFrom(v, i) ==
    IF i \notin DOMAIN v THEN 0 ELSE v[i] + 256 * ValueFrom(v, i + 1)

Value(v) == ValueFrom(v, 0)

\* the n-byte value stored at byte offset off of buffer b
LoadN(b, off, n) == [i \in 0..(n - 1) |-> b[off + i]]

RECURSIVE StoreBytes(_, _, _, _, _)
\* bytes i..n-1 of value v stored at off + i (a store outside b is dropped)
StoreBytes(b, off, n, v, i) ==
    IF i >= n THEN b
    ELSE StoreBytes(IF (off + i) \in DOMAIN b
                    THEN [b EXCEPT ![off + i] = v[i]]
                    ELSE b,
                    off, n, v, i + 1)

\* buffer b after storing the n-byte value v at byte offset off
StoreN(b, off, n, v) == StoreBytes(b, off, n, v, 0)

\* values of T used as inputs: one, all-ones, and a value whose bytes differ
TestValues(n) ==
    {[i \in 0..(n - 1) |-> IF i = 0 THEN 1 ELSE 0],
     [i \in 0..(n - 1) |-> 255],
     [i \in 0..(n - 1) |-> i + 1]}

\* the 4-byte floats 1.0f (0x3F800000) and -1.0f (0xBF800000)
FloatOne == [i \in 0..3 |-> IF i = 2 THEN 128 ELSE IF i = 3 THEN 63 ELSE 0]
FloatMinusOne == [i \in 0..3 |-> IF i = 2 THEN 128 ELSE IF i = 3 THEN 191 ELSE 0]

\* ------------------------------------------------------- GpuMat<T>::GpuMat
\* the grid with the block counts rounded down
ComputeCudaConfig_Floor(width, height) ==
    [gridX |-> width \div kBlockDimX, gridY |-> height \div kBlockDimY]

ComputeCudaConfig(width, height) ==
    [gridX |-> (width - 1) \div kBlockDimX + 1,
     gridY |-> (height - 1) \div kBlockDimY + 1]

RECURSIVE Pow2(_)
Pow2(n) == IF n = 0 THEN 1 ELSE 2 * Pow2(n - 1)

\* The pitches cudaMallocPitch may return for rows of widthBytes bytes: the
\* row length rounded up to the device's row alignment, a power of two.
MallocPitch(widthBytes) ==
    {((widthBytes + Pow2(k) - 1) \div Pow2(k)) * Pow2(k) : k \in 0..MaxAlignLog}

\* The handle the constructor builds for GpuMat<T> with sizeof(T) = size, once
\* cudaMallocPitch returned the allocation ptr and chose pitch.
GpuMat(ptr, size, width, height, depth, pitch) ==
    [ptr |-> ptr, size |-> size, pitch |-> pitch,
     width |-> width, height |-> height, depth |-> depth,
     gridX |-> ComputeCudaConfig(width, height).gridX,
     gridY |-> ComputeCudaConfig(width, height).gridY]

\* all handles a constructor call can produce
NewMats(ptr, sizes, widths, heights, depths) ==
    UNION {{GpuMat(ptr, q[1], q[2], q[3], q[4], p) : p \in MallocPitch(q[2] * q[1])} :
           q \in sizes \X widths \X heights \X depths}

\* bytes of the allocation: pitch * (height * depth) rows
AllocBytes(m) == m.pitch * m.height * m.depth

\* n bytes of uninitialised memory
Uninit(n, g) == [a \in 0..(n - 1) |-> (g[1] + a * g[2]) % 256]

FreshMem(m, g) == Uninit(AllocBytes(m), g)

\* the value of a variable the specification at hand does not use
NotUsed == "unused"

\* ------------------------------------------------------------ Get / Set
\* the offset with the slice stride taken as one row instead of height rows
ByteOffset_NoHeight(m, row, col, slice) ==
    m.pitch * (slice + row) + col * m.size

\* (char*)array_ptr_ + pitch_ * (slice * height_ + row), then T* + col
ByteOffset(m, row, col, slice) ==
    m.pitch * (slice * m.height + row) + col * m.size

Get(m, b, row, col, slice) == LoadN(b, ByteOffset(m, row, col, slice), m.size)

Set(m, b, row, col, slice, value) ==
    StoreN(b, ByteOffset(m, row, col, slice), m.size, value)

Coords(m) == (0..(m.height - 1)) \X (0..(m.width - 1)) \X (0..(m.depth - 1))

Pixels(m) == (0..(m.height - 1)) \X (0..(m.width - 1))

\* ------------------------------------------------------------- SetSlice
RECURSIVE SetSliceFrom(_, _, _, _, _, _)
\* the loop of SetSlice from slice on: Set(row, col, slice, values[slice])
SetSliceFrom(m, b, row, col, values, slice) ==
    IF slice >= m.depth THEN b
    ELSE SetSliceFrom(m, Set(m, b, row, col, slice, values[slice]),
                      row, col, values, slice + 1)

SetSlice(m, b, row, col, values) == SetSliceFrom(m, b, row, col, values, 0)

\* per-channel input vectors: channel k holds v with k added to its low byte,
\* and [1.0f, -1.0f] for a two-channel array of floats
TestVectors(m) ==
    {[k \in 0..(m.depth - 1) |-> [v EXCEPT ![0] = (@ + k) % 256]] :
        v \in TestValues(m.size)}
    \cup (IF m.size = 4 /\ m.depth = 2
          THEN {[k \in 0..1 |-> IF k = 0 THEN FloatOne ELSE FloatMinusOne]}
          ELSE {})

\* ====================================================================
\* Element access: one device-side Set or SetSlice on an array whose
\* memory holds whatever the allocation held.
\* ====================================================================
SmallMats == NewMats("mem", ElemSizes, 1..MaxWidth, 1..MaxHeight, 1..MaxDepth)

InitAccess ==
    /\ mat \in SmallMats
    /\ mem \in {FreshMem(mat, g) : g \in Garbage}
    /\ last = [op |-> "Init"]
    /\ out = NotUsed /\ outMem = NotUsed /\ host = NotUsed /\ fs = NotUsed
    /\ handles = NotUsed /\ ctrl = NotUsed

DoSet ==
    /\ last.op = "Init"
    /\ \E c \in Coords(mat), v \in TestValues(mat.size) :
          /\ mem' = Set(mat, mem, c[1], c[2], c[3], v)
          /\ last' = [op |-> "Set", row |-> c[1], col |-> c[2], slice |-> c[3],
                      value |-> v, before |-> mem]
    /\ UNCHANGED <<mat, out, outMem, host, fs, handles, ctrl>>

DoSetSlice ==
    /\ last.op = "Init"
    /\ \E p \in Pixels(mat), vs \in TestVectors(mat) :
          /\ mem' = SetSlice(mat, mem, p[1], p[2], vs)
          /\ last' = [op |-> "SetSlice", row |-> p[1], col |-> p[2],
                      values |-> vs, before |-> mem]
    /\ UNCHANGED <<mat, out, outMem, host, fs, handles, ctrl>>

NextAccess == DoSet \/ DoSetSlice

SpecAccess == InitAccess /\ [][NextAccess]_vars

\* C1: after Set(row, col, slice, v) on an array with pitch >= width*sizeof(T),
\* Get(row, col, slice) returns v and Get at every other valid coordinate
\* returns what it returned before the Set.
C1_SetGetFrame ==
    last.op = "Set" =>
        /\ mat.pitch >= mat.width * mat.size
        /\ Get(mat, mem, last.row, last.col, last.slice) = last.value
        /\ \A c \in Coords(mat) :
              c # <<last.row, last.col, last.slice>> =>
                  Get(mat, mem, c[1], c[2], c[3])
                      = Get(mat, last.before, c[1], c[2], c[3])

\* a Set that changed the element, on a padded array with other elements
C1_Witness ==
    /\ last.op = "Set"
    /\ mat.pitch > mat.width * mat.size
    /\ mat.width > 1 /\ mat.height > 1 /\ mat.depth > 1
    /\ last.slice > 0
    /\ Get(mat, last.before, last.row, last.col, last.slice) # last.value

\* ====================================================================
\* Ownership: handle objects sharing device allocations through
\* std::shared_ptr<T> array_ with deleter cudaFree.
\* ====================================================================
HandleIds == 1..MaxHandles
AllocIds == 1..MaxAllocs
NoHandle == 0

\* std::shared_ptr<T>(array_ptr_, cudaFree): a new control block owning a
NewControlBlock == [created |-> TRUE, useCount |-> 1, frees |-> 0]

\* a copy that shares the raw pointer without taking a reference
SharedPtrCopy_NoRef(c, a) == c

\* copy construction of array_: one more owner of allocation a
SharedPtrCopy(c, a) == [c EXCEPT ![a].useCount = @ + 1]

\* array_.reset(): one owner less; the last owner runs the deleter cudaFree
SharedPtrReset(c, a) ==
    IF c[a].useCount = 1
    THEN [c EXCEPT ![a].useCount = 0, ![a].frees = @ + 1]
    ELSE [c EXCEPT ![a].useCount = @ - 1]

LiveHandles(a) == {h \in HandleIds : handles[h] = a}

InitRef ==
    /\ handles = [h \in HandleIds |-> NoHandle]
    /\ ctrl = [a \in AllocIds |-> [created |-> FALSE, useCount |-> 0, frees |-> 0]]
    /\ last = [op |-> "Init"]
    /\ mat = NotUsed /\ mem = NotUsed /\ out = NotUsed /\ outMem = NotUsed
    /\ host = NotUsed /\ fs = NotUsed

\* GpuMat(width, height, depth): cudaMallocPitch, then array_ owns the pointer
Construct ==
    \E h \in HandleIds, a \in AllocIds :
        /\ handles[h] = NoHandle
        /\ ~ctrl[a].created
        /\ \A b \in AllocIds : b < a => ctrl[b].created
        /\ handles' = [handles EXCEPT ![h] = a]
        /\ ctrl' = [ctrl EXCEPT ![a] = NewControlBlock]
        /\ last' = [op |-> "Construct", alloc |-> a]
        /\ UNCHANGED <<mat, mem, out, outMem, host, fs>>

\* the implicit copy constructor: every member copied, array_ included
CopyHandle ==
    \E h \in HandleIds, h2 \in HandleIds :
        /\ handles[h] # NoHandle
        /\ handles[h2] = NoHandle
        /\ handles' = [handles EXCEPT ![h2] = handles[h]]
        /\ ctrl' = SharedPtrCopy(ctrl, handles[h])
        /\ last' = [op |-> "Copy", alloc |-> handles[h]]
        /\ UNCHANGED <<mat, mem, out, outMem, host, fs>>

\* ~GpuMat(): array_.reset()
Destroy ==
    \E h \in HandleIds :
        /\ handles[h] # NoHandle
        /\ handles' = [handles EXCEPT ![h] = NoHandle]
        /\ ctrl' = SharedPtrReset(ctrl, handles[h])
        /\ last' = [op |-> "Destroy", alloc |-> handles[h]]
        /\ UNCHANGED <<mat, mem, out, outMem, host, fs>>

\* FillWithVector: *this is copied into the kernel's by-value parameter, the
\* kernel runs on the copy's pointer, and the copy is destroyed.
LaunchFillWithVector ==
    \E h \in HandleIds :
        /\ handles[h] # NoHandle
        /\ LET a == handles[h]
               during == SharedPtrCopy(ctrl, a)
           IN /\ ctrl' = SharedPtrReset(during, a)
              /\ last' = [op |-> "FillWithVector", alloc |-> a,
                          liveDuringKernel |-> (during[a].frees = 0)]
        /\ UNCHANGED <<handles, mat, mem, out, outMem, host, fs>>

\* FillWithRandomNumbers: the caller's state handle s is copied into the
\* by-value parameter random_state; *this and random_state are copied into
\* the kernel's parameters; all three copies are destroyed on return.
LaunchFillWithRandomNumbers ==
    \E h \in HandleIds, s \in HandleIds :
        /\ handles[h] # NoHandle /\ handles[s] # NoHandle
        /\ handles[h] # handles[s]
        /\ LET a == handles[h]
               r == handles[s]
               param == SharedPtrCopy(ctrl, r)
               during == SharedPtrCopy(SharedPtrCopy(param, a), r)
               after == SharedPtrReset(SharedPtrReset(during, r), a)
           IN /\ ctrl' = SharedPtrReset(after, r)
              /\ last' = [op |-> "FillWithRandomNumbers", alloc |-> a,
                          liveDuringKernel |->
                              (during[a].frees = 0 /\ during[r].frees = 0)]
        /\ UNCHANGED <<handles, mat, mem, out, outMem, host, fs>>

NextRef ==
    \/ Construct
    \/ CopyHandle
    \/ Destroy
    \/ LaunchFillWithVector
    \/ LaunchFillWithRandomNumbers

SpecRef == InitRef /\ [][NextRef]_vars

\* C2: after any sequence of construct, copy (kernel-launch copies included)
\* and destroy, an allocation is released exactly once, when its last handle
\* is destroyed: never while a handle references it, never twice.
C2_ReleasedExactlyOnce ==
    \A a \in AllocIds :
        /\ ctrl[a].frees <= 1
        /\ ctrl[a].created =>
              (ctrl[a].frees = 1 <=> LiveHandles(a) = {})
        /\ ~ctrl[a].created => ctrl[a].frees = 0 /\ LiveHandles(a) = {}
        /\ last.op \in {"FillWithVector", "FillWithRandomNumbers"} =>
              last.liveDuringKernel

\* an allocation released by destroying the last of several handles, after a
\* kernel launch copied one of them, while another allocation is still live
C2_Witness ==
    /\ last.op = "Destroy"
    /\ ctrl[1].created /\ ctrl[1].frees = 1 /\ LiveHandles(1) = {}
    /\ ctrl[2].created /\ ctrl[2].frees = 0 /\ Cardinality(LiveHandles(2)) = 2

\* ====================================================================
\* Transfer: CopyToDevice from a host buffer, CopyToHost into another.
\* ====================================================================
RECURSIVE Memcpy2DRows(_, _, _, _, _, _, _, _)
\* rows r..rows-1 of cudaMemcpy2D: widthBytes bytes from src + srcOff +
\* r*spitch to dst + r*dpitch
Memcpy2DRows(dst, dpitch, src, srcOff, spitch, widthBytes, rows, r) ==
    IF r >= rows THEN dst
    ELSE Memcpy2DRows(
             [a \in DOMAIN dst |->
                 IF a >= r * dpitch /\ a < r * dpitch + widthBytes
                 THEN src[srcOff + r * spitch + (a - r * dpitch)]
                 ELSE dst[a]],
             dpitch, src, srcOff, spitch, widthBytes, rows, r + 1)

\* cudaMemcpy2D(dst, dpitch, src, spitch, width, height, kind), the source
\* pointer being srcOff bytes into the buffer src
cudaMemcpy2D(dst, dpitch, src, srcOff, spitch, widthBytes, rows) ==
    Memcpy2DRows(dst, dpitch, src, srcOff, spitch, widthBytes, rows, 0)

\* the device buffer b of m after CopyToDevice(data, pitch)
CopyToDevice(m, b, data, pitch) ==
    cudaMemcpy2D(b, m.pitch, data, 0, pitch, m.width * m.size, m.height * m.depth)

\* the copy back with the row length given in elements instead of bytes
CopyToHost_WidthInElements(m, b, data, pitch) ==
    cudaMemcpy2D(data, pitch, b, 0, m.pitch, m.width, m.height * m.depth)

\* the host buffer data after CopyToHost(data, pitch) from device buffer b
CopyToHost(m, b, data, pitch) ==
    cudaMemcpy2D(data, pitch, b, 0, m.pitch, m.width * m.size, m.height * m.depth)

\* host row pitches a caller may use for m
HostPitches(m) == (m.width * m.size)..(m.width * m.size + MaxPad)

InitTransfer ==
    /\ mat \in SmallMats
    /\ mem \in {FreshMem(mat, g) : g \in {<<170, 0>>}}
    /\ \E hp \in HostPitches(mat), g \in Garbage :
          host = [pitch |-> hp,
                  data |-> Uninit(hp * mat.height * mat.depth, g),
                  out |-> Uninit(hp * mat.height * mat.depth, <<85, 0>>)]
    /\ last = [op |-> "Init"]
    /\ out = NotUsed /\ outMem = NotUsed /\ fs = NotUsed
    /\ handles = NotUsed /\ ctrl = NotUsed

DoCopyToDevice ==
    /\ last.op = "Init"
    /\ mem' = CopyToDevice(mat, mem, host.data, host.pitch)
    /\ last' = [op |-> "CopyToDevice"]
    /\ UNCHANGED <<mat, out, outMem, host, fs, handles, ctrl>>

DoCopyToHost ==
    /\ last.op \in {"Init", "CopyToDevice"}
    /\ host' = [host EXCEPT !.out = CopyToHost(mat, mem, host.out, host.pitch)]
    /\ last' = [op |-> "CopyToHost", after |-> last.op]
    /\ UNCHANGED <<mat, mem, out, outMem, fs, handles, ctrl>>

NextTransfer == DoCopyToDevice \/ DoCopyToHost

SpecTransfer == InitTransfer /\ [][NextTransfer]_vars

\* C3: CopyToDevice(data, hostPitch) then CopyToHost(out, hostPitch) makes
\* each of the height*depth rows of out (width*sizeof(T) bytes) equal to the
\* same row of data, whatever device pitch the allocator chose.
C3_TransferRoundTrip ==
    (last.op = "CopyToHost" /\ last.after = "CopyToDevice") =>
        \A r \in 0..(mat.height * mat.depth - 1) :
            \A i \in 0..(mat.width * mat.size - 1) :
                host.out[r * host.pitch + i] = host.data[r * host.pitch + i]

\* a round trip through a padded device buffer with a different host pitch,
\* of data whose bytes differ from one another
C3_Witness ==
    /\ last.op = "CopyToHost" /\ last.after = "CopyToDevice"
    /\ mat.pitch > mat.width * mat.size
    /\ host.pitch # mat.pitch
    /\ mat.height > 1 /\ mat.depth > 1 /\ mat.size > 1
    /\ host.data[0] # host.data[host.pitch]

\* ====================================================================
\* Fill: FillWithScalar (cudaMemset) and the FillWithVector kernel.
\* ====================================================================
\* cudaMemset(devPtr, value, count): the first count bytes become
\* (unsigned char)value
cudaMemset(b, value, count) ==
    [a \in DOMAIN b |-> IF a < count THEN value % 256 ELSE b[a]]

FillWithScalar(m, b, value) ==
    cudaMemset(b, value, m.width * m.height * m.depth * m.size)

\* threads of one block: blockDim.x * blockDim.y
BlockThreads == kBlockDimX * kBlockDimY

\* row and col of the thread with linear index t within block blk
ThreadRow(m, blk, t) == (blk \div m.gridX) * kBlockDimY + (t \div kBlockDimX)
ThreadCol(m, blk, t) == (blk % m.gridX) * kBlockDimX + (t % kBlockDimX)

\* one thread of FillWithVectorKernel; acc.b is the device buffer, acc.writers
\* the threads that have stored something, acc.ran the threads run so far
FillWithVectorThread(m, acc, values, row, col) ==
    IF row < m.height /\ col < m.width
    THEN [b |-> SetSlice(m, acc.b, row, col, values),
          writers |-> acc.writers \cup {<<row, col>>},
          ran |-> acc.ran + 1]
    ELSE [acc EXCEPT !.ran = @ + 1]

RECURSIVE VectorRow(_, _, _, _, _)
\* the threads with threadIdx.y = ty of block blk that have not run yet
VectorRow(m, acc, values, blk, ty) ==
    IF acc.ran >= blk * BlockThreads + (ty + 1) * kBlockDimX THEN acc
    ELSE VectorRow(m,
             FillWithVectorThread(m, acc, values,
                                  ThreadRow(m, blk, acc.ran % BlockThreads),
                                  ThreadCol(m, blk, acc.ran % BlockThreads)),
             values, blk, ty)

RECURSIVE VectorBlock(_, _, _, _, _)
\* the threads with threadIdx.y = ty..blockDim.y-1 of block blk
VectorBlock(m, acc, values, blk, ty) ==
    IF ty >= kBlockDimY THEN acc
    ELSE VectorBlock(m, VectorRow(m, acc, values, blk, ty), values, blk, ty + 1)

RECURSIVE VectorBlocks(_, _, _, _)
\* blocks blk..gridSize_.x*gridSize_.y-1 of the launch <<<gridSize_, blockSize_>>>
VectorBlocks(m, acc, values, blk) ==
    IF blk >= m.gridX * m.gridY THEN acc
    ELSE VectorBlocks(m, VectorBlock(m, acc, values, blk, 0), values, blk + 1)

\* FillWithVector: the kernel launched on a by-value copy of the handle
FillWithVector(m, b, values) ==
    VectorBlocks(m, [b |-> b, writers |-> {}, ran |-> 0], values, 0)

FillDims(small, block) == {1, small, block, block + MaxOver}

FillMats ==
    NewMats("mem", {1, 2}, FillDims(MaxWidth, kBlockDimX),
            FillDims(MaxHeight, kBlockDimY), 1..MaxDepth)

InitFill ==
    /\ mat \in FillMats
    /\ mem \in {FreshMem(mat, g) : g \in {<<170, 0>>}}
    /\ last = [op |-> "Init"]
    /\ out = NotUsed /\ outMem = NotUsed /\ host = NotUsed /\ fs = NotUsed
    /\ handles = NotUsed /\ ctrl = NotUsed

DoFillWithScalar ==
    /\ last.op = "Init"
    /\ \E v \in {1, 255} :
          /\ mem' = FillWithScalar(mat, mem, v)
          /\ last' = [op |-> "FillWithScalar", value |-> v]
    /\ UNCHANGED <<mat, out, outMem, host, fs, handles, ctrl>>

DoFillWithVector ==
    /\ last.op = "Init"
    /\ \E vs \in TestVectors(mat) :
          LET r == FillWithVector(mat, mem, vs)
          IN /\ mem' = r.b
             /\ last' = [op |-> "FillWithVector", values |-> vs,
                         writers |-> r.writers, before |-> mem]
    /\ UNCHANGED <<mat, out, outMem, host, fs, handles, ctrl>>

NextFill == DoFillWithScalar \/ DoFillWithVector

SpecFill == InitFill /\ [][NextFill]_vars

\* C6: for a byte-sized element type, after FillWithScalar(value) every
\* element equals value, for every pitch >= width*sizeof(T).
C6_ScalarFillsEveryElement ==
    (last.op = "FillWithScalar" /\ mat.size = 1) =>
        \A c \in Coords(mat) :
            Get(mat, mem, c[1], c[2], c[3]) = Bytes(last.value, mat.size)

\* C7: after FillWithVector(v), Get(row, col, slice) = v[slice] for every
\* pixel: the threads that store are exactly those of the pixels of the
\* array (each pixel has its thread, threads outside store nothing).
C7_VectorFillsEveryPixel ==
    last.op = "FillWithVector" =>
        /\ \A c \in Coords(mat) :
              Get(mat, mem, c[1], c[2], c[3]) = last.values[c[3]]
        /\ last.writers = Pixels(mat)

\* a fill whose grid has several blocks in both directions and overshoots the
\* array, on a padded multi-slice array
C7_Witness ==
    /\ last.op = "FillWithVector"
    /\ mat.gridX > 1 /\ mat.gridY > 1
    /\ mat.gridX * kBlockDimX > mat.width
    /\ mat.gridY * kBlockDimY > mat.height
    /\ mat.depth > 1 /\ mat.pitch > mat.width * mat.size
    /\ last.values[0] # last.values[1]
    /\ Get(mat, last.before, 0, 0, 1) # last.values[1]

\* ====================================================================
\* Randomization: FillWithRandomNumbers with a per-pixel generator state
\* buffer GpuMat<curandState>.  The generator is a 16-bit linear
\* congruential one; heap maps an allocation (a handle's ptr) to its bytes.
\* ====================================================================
\* curand_uniform(&state) advances the state ...
CurandNext(state) == (state * 25173 + 13849) % Pow256(kStateSize)

\* ... and returns a value in (0, 1], here numerator / 256
CurandUniformNum(state) == ((state \div 256) % 256) + 1

\* curand_uniform(&local_state) * (max_value - min_value) + min_value, as T
RandomValue(state, minValue, maxValue) ==
    (CurandUniformNum(state) * (maxValue - minValue)) \div 256 + minValue

RECURSIVE RandomSlices(_, _, _, _, _, _, _, _)
\* the slice loop of one thread from slice on: [b, local] is the output
\* buffer and the thread's local generator state
RandomSlices(output, b, local, row, col, minValue, maxValue, slice) ==
    IF slice >= output.depth THEN [b |-> b, local |-> local]
    ELSE RandomSlices(output,
             Set(output, b, row, col, slice,
                 Bytes(RandomValue(CurandNext(local), minValue, maxValue),
                       output.size)),
             CurandNext(local), row, col, minValue, maxValue, slice + 1)

\* one thread of FillWithRandomNumbersKernel
FillWithRandomNumbersThread(output, randomState, acc, minValue, maxValue, row, col) ==
    IF row < output.height /\ col < output.width
    THEN LET r == RandomSlices(output, acc.heap[output.ptr],
                               Value(Get(randomState, acc.heap[randomState.ptr],
                                         row, col, 0)),
                               row, col, minValue, maxValue, 0)
             h1 == [acc.heap EXCEPT ![output.ptr] = r.b]
         IN [heap |-> [h1 EXCEPT ![randomState.ptr] =
                          Set(randomState, h1[randomState.ptr], row, col, 0,
                              Bytes(r.local, randomState.size))],
             writers |-> acc.writers \cup {<<row, col>>},
             ran |-> acc.ran + 1]
    ELSE [acc EXCEPT !.ran = @ + 1]

RECURSIVE RandomRow(_, _, _, _, _, _, _)
\* the threads with threadIdx.y = ty of block blk that have not run yet
RandomRow(output, randomState, acc, minValue, maxValue, blk, ty) ==
    IF acc.ran >= blk * BlockThreads + (ty + 1) * kBlockDimX THEN acc
    ELSE RandomRow(output, randomState,
             FillWithRandomNumbersThread(output, randomState, acc, minValue, maxValue,
                 ThreadRow(output, blk, acc.ran % BlockThreads),
                 ThreadCol(output, blk, acc.ran % BlockThreads)),
             minValue, maxValue, blk, ty)

RECURSIVE RandomBlock(_, _, _, _, _, _, _)
RandomBlock(output, randomState, acc, minValue, maxValue, blk, ty) ==
    IF ty >= kBlockDimY THEN acc
    ELSE RandomBlock(output, randomState,
             RandomRow(output, randomState, acc, minValue, maxValue, blk, ty),
             minValue, maxValue, blk, ty + 1)

RECURSIVE RandomBlocks(_, _, _, _, _, _)
RandomBlocks(output, randomState, acc, minValue, maxValue, blk) ==
    IF blk >= output.gridX * output.gridY THEN acc
    ELSE RandomBlocks(output, randomState,
             RandomBlock(output, randomState, acc, minValue, maxValue, blk, 0),
             minValue, maxValue, blk + 1)

\* a copy that clones the device buffer into an allocation of its own
CopyConstruct_Deep(m) == [m EXCEPT !.ptr = "tmp"]

\* the implicit copy constructor of GpuMat: array_ptr_ and the sizes copied
CopyConstruct(m) == m

\* FillWithRandomNumbers(min_value, max_value, random_state) called on
\* output with the caller's handle state as by-value argument: the heap after
\* the kernel ran on copies of both handles
FillWithRandomNumbers(output, state, heap, minValue, maxValue) ==
    LET randomState == CopyConstruct(state)
        h0 == [p \in DOMAIN heap \cup {randomState.ptr} |->
                  IF p \in DOMAIN heap THEN heap[p] ELSE heap[state.ptr]]
    IN RandomBlocks(CopyConstruct(output), CopyConstruct(randomState),
                    [heap |-> h0, writers |-> {}, ran |-> 0],
                    minValue, maxValue, 0)

\* state buffers for an array m: one generator per pixel, or one row and one
\* column more than the array has
StateMats(m) ==
    NewMats("outMem", {kStateSize}, {m.width}, {m.height}, {1})
    \cup NewMats("outMem", {kStateSize}, {m.width + 1}, {m.height + 1}, {1})

\* [min_value, max_value] arguments
RandomRanges == {<<0, 255>>, <<10, 20>>}

InitRandom ==
    /\ mat \in NewMats("mem", {1, 2}, {1, MaxWidth}, {1, MaxHeight}, {1, MaxDepth})
    /\ mem = FreshMem(mat, <<170, 0>>)
    /\ out \in StateMats(mat)
    /\ outMem = FreshMem(out, <<7, 13>>)
    /\ last = [op |-> "Init", calls |-> 0, seed |-> outMem]
    /\ host = NotUsed /\ fs = NotUsed /\ handles = NotUsed /\ ctrl = NotUsed

DoFillWithRandomNumbers ==
    /\ last.calls < MaxCalls
    /\ \E rg \in RandomRanges :
          LET r == FillWithRandomNumbers(mat, out, [mem |-> mem, outMem |-> outMem],
                                         rg[1], rg[2])
          IN /\ mem' = r.heap.mem
             /\ outMem' = r.heap.outMem
             /\ last' = [op |-> "FillWithRandomNumbers", calls |-> last.calls + 1,
                         seed |-> last.seed, minValue |-> rg[1], maxValue |-> rg[2],
                         writers |-> r.writers]
    /\ UNCHANGED <<mat, out, host, fs, handles, ctrl>>

NextRandom == DoFillWithRandomNumbers

SpecRandom == InitRandom /\ [][NextRandom]_vars

RECURSIVE Advance(_, _)
\* the generator state s after n draws
Advance(s, n) == IF n = 0 THEN s ELSE Advance(CurandNext(s), n - 1)

\* C8: each call reads an in-range pixel's generator state, advances it by
\* one draw per slice and stores it in the caller's state buffer, so after n
\* calls the state is depth*n draws past the seed and the last call's values
\* are draws depth*(n-1)+1 .. depth*n; states of pixels outside the array
\* keep their seed.
C8_StateAdvances ==
    last.op = "FillWithRandomNumbers" =>
        /\ \A p \in Pixels(mat) :
              LET seed == Value(Get(out, last.seed, p[1], p[2], 0))
              IN /\ Value(Get(out, outMem, p[1], p[2], 0))
                       = Advance(seed, mat.depth * last.calls)
                 /\ \A k \in 0..(mat.depth - 1) :
                       Value(Get(mat, mem, p[1], p[2], k))
                           = RandomValue(
                                 Advance(seed, mat.depth * (last.calls - 1) + k + 1),
                                 last.minValue, last.maxValue)
        /\ \A p \in Pixels(out) \ Pixels(mat) :
              Get(out, outMem, p[1], p[2], 0) = Get(out, last.seed, p[1], p[2], 0)
        /\ last.writers = Pixels(mat)

\* a second call on a multi-slice array whose state buffer has pixels outside
\* the array, continuing from states the first call stored
C8_Witness ==
    /\ last.op = "FillWithRandomNumbers" /\ last.calls = 2
    /\ mat.depth > 1 /\ mat.width > 1 /\ mat.height > 1
    /\ out.width > mat.width /\ out.pitch > out.width * out.size
    /\ Get(out, outMem, 1, 1, 0) # Get(out, last.seed, 1, 1, 0)
    /\ Value(Get(out, outMem, 1, 1, 0))
         # Advance(Value(Get(out, last.seed, 1, 1, 0)), mat.depth)

\* ====================================================================
\* Serialization: Write / Write(slice) of mat to the file, Read of the
\* file into out.  A file is a sequence of bytes; text is ASCII.
\* ====================================================================
RECURSIVE FormatSizeT(_)
\* operator<<(size_t): the decimal digits of n
FormatSizeT(n) ==
    IF n < 10 THEN <<48 + n>> ELSE Append(FormatSizeT(n \div 10), 48 + (n % 10))

\* a header written without the separator after the depth
FormatHeader_NoTrailingSeparator(width, height, depth) ==
    FormatSizeT(width) \o <<38>> \o FormatSizeT(height) \o <<38>> \o FormatSizeT(depth)

\* text_file << width << "&" << height << "&" << depth << "&"
FormatHeader(width, height, depth) ==
    FormatSizeT(width) \o <<38>> \o FormatSizeT(height) \o <<38>>
        \o FormatSizeT(depth) \o <<38>>

\* n elements of a value-initialised std::vector<T>: zero bytes
ZeroVector(n) == [a \in 0..(n - 1) |-> 0]

\* the bytes binary_file.write((char*)dest.data(), n) appends
Payload(dest, n) == [i \in 1..n |-> dest[i - 1]]

\* std::fstream(file_name, mode).is_open(): a path that cannot be opened
\* ("denied") fails in every mode, a missing file only for reading
OpensForRead(f) == f.status = "present"
OpensForWrite(f) == f.status # "denied"

\* the file after Write(file_name) of array m with device bytes b
WriteFile(f, m, b) ==
    LET n == m.width * m.height * m.depth * m.size
        dest == CopyToHost(m, b, ZeroVector(n), m.width * m.size)
    IN IF OpensForWrite(f)
       THEN [status |-> "present",
             bytes |-> FormatHeader(m.width, m.height, m.depth) \o Payload(dest, n)]
       ELSE f

\* array_ptr_ + slice * height_ * pitch_ / sizeof(T): the byte offset of the
\* element pointer Write(file_name, slice) copies from
WriteSliceBase(m, slice) == ((slice * m.height * m.pitch) \div m.size) * m.size

\* the file after Write(file_name, slice)
WriteSliceFile(f, m, b, slice) ==
    LET n == m.width * m.height * m.size
        dest == cudaMemcpy2D(ZeroVector(n), m.width * m.size, b,
                             WriteSliceBase(m, slice), m.pitch,
                             m.width * m.size, m.height)
    IN IF OpensForWrite(f)
       THEN [status |-> "present",
             bytes |-> FormatHeader(m.width, m.height, 1) \o Payload(dest, n)]
       ELSE f

IsSpace(c) == c \in {9, 10, 11, 12, 13, 32}
IsDigit(c) == c \in 48..57

RECURSIVE SkipWs(_, _)
\* the first position at or after pos that holds no white space
SkipWs(bytes, pos) ==
    IF pos <= Len(bytes) /\ IsSpace(bytes[pos]) THEN SkipWs(bytes, pos + 1) ELSE pos

RECURSIVE ReadDigits(_, _, _)
ReadDigits(bytes, pos, acc) ==
    IF pos <= Len(bytes) /\ IsDigit(bytes[pos])
    THEN ReadDigits(bytes, pos + 1, [value |-> acc.value * 10 + (bytes[pos] - 48),
                                     pos |-> pos + 1, ok |-> TRUE])
    ELSE acc

\* text_file >> n for a size_t n, the stream being at pos
ExtractSizeT(bytes, pos) ==
    ReadDigits(bytes, SkipWs(bytes, pos),
               [value |-> 0, pos |-> SkipWs(bytes, pos), ok |-> FALSE])

\* text_file >> unused_char
ExtractChar(bytes, pos) ==
    LET p == SkipWs(bytes, pos)
    IN [pos |-> p + 1, ok |-> p <= Len(bytes)]

\* width >> unused_char >> height >> unused_char >> depth >> unused_char, then
\* tellg(): pos is the number of bytes before the payload
ParseHeader(bytes) ==
    LET w == ExtractSizeT(bytes, 1)
        c1 == ExtractChar(bytes, w.pos)
        h == ExtractSizeT(bytes, c1.pos)
        c2 == ExtractChar(bytes, h.pos)
        d == ExtractSizeT(bytes, c2.pos)
        c3 == ExtractChar(bytes, d.pos)
    IN [ok |-> w.ok /\ c1.ok /\ h.ok /\ c2.ok /\ d.ok /\ c3.ok,
        width |-> w.value, height |-> h.value, depth |-> d.value,
        pos |-> c3.pos - 1]

Min(a, b) == IF a < b THEN a ELSE b

\* What Read(file_name) into m does with an opened file: the bytes
\* binary_file.read stores from source.data() on (count) and the staging
\* vector source itself (size bytes of it exist).
ReadStaging(bytes, m) ==
    LET hdr == ParseHeader(bytes)
        size == m.width * m.height * m.depth * m.size
        requested == hdr.width * hdr.height * hdr.depth * m.size
        count == Min(requested, Len(bytes) - hdr.pos)
    IN [size |-> size, requested |-> requested, count |-> count,
        source |-> [a \in 0..(size - 1) |->
                       IF a < count THEN bytes[hdr.pos + a + 1] ELSE 0]]

\* arrays of the serialization runs: small ones, and the 4x3x2 array of
\* 4-byte floats
IOMats(ptr) ==
    NewMats(ptr, {1, 2}, {1, MaxWidth}, {1, MaxHeight}, {1, MaxDepth})
    \cup NewMats(ptr, {4}, {4}, {3}, {2})

\* the vector the source array is filled with before it is written
IOVectors(m) ==
    IF m.size = 4 /\ m.depth = 2
    THEN {[k \in 0..1 |-> IF k = 0 THEN FloatOne ELSE FloatMinusOne]}
    ELSE {[k \in 0..(m.depth - 1) |-> [i \in 0..(m.size - 1) |-> 16 * (k + 1) + i]]}

InitIO ==
    /\ mat \in IOMats("mem")
    /\ mem = FreshMem(mat, <<7, 13>>)
    /\ out \in {m \in IOMats("outMem") : m.size = mat.size}
    /\ outMem = FreshMem(out, <<170, 0>>)
    /\ fs \in {[status |-> st, bytes |-> <<>>] : st \in {"missing", "denied"}}
    /\ last = [op |-> "Init", written |-> "nothing"]
    /\ host = NotUsed /\ handles = NotUsed /\ ctrl = NotUsed

IOFillWithVector ==
    /\ last.op = "Init"
    /\ \E vs \in IOVectors(mat) :
          /\ mem' = FillWithVector(mat, mem, vs).b
          /\ last' = [op |-> "FillWithVector", written |-> "nothing", values |-> vs]
    /\ UNCHANGED <<mat, out, outMem, host, fs, handles, ctrl>>

DoWrite ==
    /\ last.op \in {"Init", "FillWithVector"}
    /\ fs' = WriteFile(fs, mat, mem)
    /\ last' = [op |-> "Write", openFailed |-> ~OpensForWrite(fs), error |-> FALSE,
                written |-> IF OpensForWrite(fs) THEN "array" ELSE "nothing"]
    /\ UNCHANGED <<mat, mem, out, outMem, host, handles, ctrl>>

DoWriteSlice ==
    /\ last.op \in {"Init", "FillWithVector"}
    /\ \E slice \in 0..(mat.depth - 1) :
          /\ fs' = WriteSliceFile(fs, mat, mem, slice)
          /\ last' = [op |-> "WriteSlice", openFailed |-> ~OpensForWrite(fs),
                      error |-> FALSE, slice |-> slice,
                      base |-> WriteSliceBase(mat, slice),
                      written |-> IF OpensForWrite(fs) THEN "slice" ELSE "nothing"]
    /\ UNCHANGED <<mat, mem, out, outMem, host, handles, ctrl>>

\* Read(file_name) into out.  CHECK(text_file.is_open()) << file_name ends the
\* process with the path in the message.  Reading more bytes than the staging
\* vector holds is undefined: the process either dies or goes on.
DoRead ==
    /\ last.op \in {"Init", "FillWithVector", "Write", "WriteSlice"}
    /\ IF ~OpensForRead(fs)
       THEN /\ outMem' = outMem
            /\ last' = [op |-> "Read", openFailed |-> TRUE, error |-> TRUE,
                        written |-> last.written, before |-> outMem]
       ELSE /\ ParseHeader(fs.bytes).ok
            /\ LET r == ReadStaging(fs.bytes, out)
               IN \E crashed \in (IF r.count > r.size THEN BOOLEAN ELSE {FALSE}) :
                    /\ outMem' = IF crashed THEN outMem
                                  ELSE CopyToDevice(out, outMem, r.source,
                                                    out.width * out.size)
                    /\ last' = [op |-> "Read", openFailed |-> FALSE, error |-> FALSE,
                                written |-> last.written, before |-> outMem,
                                crashed |-> crashed, requested |-> r.requested,
                                bytesRead |-> r.count, stagingSize |-> r.size,
                                header |-> ParseHeader(fs.bytes)]
    /\ UNCHANGED <<mat, mem, out, host, fs, handles, ctrl>>

NextIO == IOFillWithVector \/ DoWrite \/ DoWriteSlice \/ DoRead

SpecIO == InitIO /\ [][NextIO]_vars

SameShape(a, b) ==
    a.width = b.width /\ a.height = b.height /\ a.depth = b.depth

\* C4: Write(path) followed by Read(path) into an array of the same width,
\* height and depth makes Get(row, col, slice) of the destination equal to
\* that of the written array at every valid coordinate.
C4_WriteReadRoundTrip ==
    (last.op = "Read" /\ last.written = "array" /\ SameShape(mat, out)) =>
        /\ ~last.error
        /\ \A c \in Coords(mat) :
              Get(out, outMem, c[1], c[2], c[3]) = Get(mat, mem, c[1], c[2], c[3])

\* the 4x3x2 float array filled with [1.0, -1.0], written and read back into
\* a fresh 4x3x2 array
C4_Witness ==
    /\ last.op = "Read" /\ last.written = "array"
    /\ mat.size = 4 /\ mat.width = 4 /\ mat.height = 3 /\ mat.depth = 2
    /\ SameShape(mat, out)
    /\ \A px \in Pixels(out) :
          /\ Get(out, outMem, px[1], px[2], 0) = FloatOne
          /\ Get(out, outMem, px[1], px[2], 1) = FloatMinusOne
    /\ Get(out, last.before, 2, 3, 1) # FloatMinusOne

\* C5: Read takes the payload byte count from the destination's own
\* dimensions, not from the header: whatever the header declares, the bytes
\* read into the staging vector never exceed its width_*height_*depth_
\* elements.
C5_ReadWithinStaging ==
    (last.op = "Read" /\ ~last.openFailed) =>
        last.bytesRead <= last.stagingSize

\* C10: a file that cannot be opened is reported as an error by Read (the
\* device buffer staying as it was) and by both Write variants.
C10_OpenFailureReported ==
    (last.op \in {"Read", "Write", "WriteSlice"} /\ last.openFailed) =>
        /\ last.error
        /\ last.op = "Read" => outMem = last.before

\* ====================================================================
\* Transforms: Transpose, FlipHorizontal and Rotate of mat into out, slice
\* by slice through the external kernels.
\* ====================================================================
\* array_ptr_ + slice * pitch_ / sizeof(T) * GetHeight(): the byte offset of
\* the element pointer handed to the kernel for slice
TransformSliceBase(m, slice) ==
    (((slice * m.pitch) \div m.size) * m.height) * m.size

\* where the kernel kind puts input element (r, c) of a width-wide slice:
\* <<row, col>> in the output slice
KernelTarget(kind, r, c, width) ==
    CASE kind = "Transpose" -> <<c, r>>
      [] kind = "FlipHorizontal" -> <<r, width - 1 - c>>
      [] kind = "Rotate" -> <<width - 1 - c, r>>

RECURSIVE KernelElements(_, _, _, _, _, _, _, _, _, _, _)
\* elements i.. (row-major) of one slice moved by the kernel
KernelElements(kind, src, sBase, dst, dBase, width, height, sPitch, dPitch, size, i) ==
    IF i >= width * height THEN dst
    ELSE LET r == i \div width
             c == i % width
             t == KernelTarget(kind, r, c, width)
         IN KernelElements(kind, src, sBase,
                StoreN(dst, dBase + t[1] * dPitch + t[2] * size, size,
                       LoadN(src, sBase + r * sPitch + c * size, size)),
                dBase, width, height, sPitch, dPitch, size, i + 1)

\* CudaTranspose / CudaFlipHorizontal / CudaRotate(input, output, width,
\* height, pitch_input, pitch_output) on element pointers sBase and dBase
\* bytes into src and dst
CudaKernel(kind, src, sBase, dst, dBase, width, height, sPitch, dPitch, size) ==
    KernelElements(kind, src, sBase, dst, dBase, width, height, sPitch, dPitch, size, 0)

RECURSIVE TransformSlices(_, _, _, _, _, _)
\* the slice loop of Transpose / FlipHorizontal / Rotate from slice on
TransformSlices(kind, m, b, output, ob, slice) ==
    IF slice >= m.depth THEN ob
    ELSE TransformSlices(kind, m, b, output,
             CudaKernel(kind, b, TransformSliceBase(m, slice),
                        ob, TransformSliceBase(output, slice),
                        m.width, m.height, m.pitch, output.pitch, m.size),
             slice + 1)

\* the output dimensions a kernel needs for input m
OutputFits(kind, m, output) ==
    /\ output.size = m.size /\ output.depth = m.depth
    /\ IF kind = "FlipHorizontal"
       THEN output.width = m.width /\ output.height = m.height
       ELSE output.width = m.height /\ output.height = m.width

TransformKinds == {"Transpose", "FlipHorizontal", "Rotate"}

InitTransform ==
    /\ mat \in SmallMats
    /\ mem = FreshMem(mat, <<7, 13>>)
    /\ out \in {o \in NewMats("outMem", ElemSizes, 1..MaxWidth, 1..MaxHeight,
                                1..MaxDepth) :
                    \E kind \in TransformKinds : OutputFits(kind, mat, o)}
    /\ outMem = FreshMem(out, <<170, 0>>)
    /\ fs = [status |-> "missing", bytes |-> <<>>]
    /\ last = [op |-> "Init", written |-> "nothing"]
    /\ host = NotUsed /\ handles = NotUsed /\ ctrl = NotUsed

Transform(kind) ==
    /\ last.op = "Init"
    /\ OutputFits(kind, mat, out)
    /\ outMem' = TransformSlices(kind, mat, mem, out, outMem, 0)
    /\ last' = [op |-> kind, written |-> "nothing",
                srcBase |-> [k \in 0..(mat.depth - 1) |-> TransformSliceBase(mat, k)],
                dstBase |-> [k \in 0..(mat.depth - 1) |-> TransformSliceBase(out, k)]]
    /\ UNCHANGED <<mat, mem, out, host, fs, handles, ctrl>>

DoTranspose == Transform("Transpose")

DoFlipHorizontal == Transform("FlipHorizontal")

DoRotate == Transform("Rotate")

NextTransform == DoTranspose \/ DoFlipHorizontal \/ DoRotate \/ DoWriteSlice

SpecTransform == InitTransform /\ [][NextTransform]_vars

\* C9: for every element size, pitch and slice, the slice base address that
\* Transpose, FlipHorizontal, Rotate and Write(path, slice) compute is the
\* byte address slice*height*pitch that Get and Set use, for the source and
\* for the destination.
C9_SliceBaseMatchesGet ==
    /\ last.op \in TransformKinds =>
          \A k \in 0..(mat.depth - 1) :
              /\ last.srcBase[k] = ByteOffset(mat, 0, 0, k)
              /\ last.dstBase[k] = ByteOffset(out, 0, 0, k)
    /\ last.op = "WriteSlice" =>
          last.base = ByteOffset(mat, 0, 0, last.slice)

====
